---- MODULE Spec2Model ----
(***************************************************************************)
(* A model of LLM_AGENTS/main.py: the review fetcher                       *)
(* (fetch_restaurant_data), the score aggregator (calculate_overall_score) *)
(* and the registration / chat sequence of main().                         *)
(*                                                                         *)
(* Python strings are sequences of one-character strings; a text file is   *)
(* the sequence of its lines, each ending in the newline character.        *)
(***************************************************************************)
EXTENDS Integers, Sequences, FiniteSets, TLC

VARIABLES
    file,       \* restaurant-data.txt: [exists, lines]
    owner,      \* ghost: per line, the restaurant the line was written for
    pc,         \* position of the program
    call,       \* the last call made: [fn, args] or NoCall
    result,     \* outcome of the last call, or NoResult
    permuted,   \* outcome of the same call on the permuted lists, or NoResult
    agents,     \* main(): the agents constructed so far
    llm_tools,  \* main(): tools the entrypoint agent may propose
    function_map, \* main(): functions the entrypoint agent may execute
    chats       \* main(): the chats carried out so far

vars == <<file, owner, pc, call, result, permuted,
          agents, llm_tools, function_map, chats>>

store_vars == <<file, owner>>
main_vars == <<agents, llm_tools, function_map, chats>>

NoCall == [fn |-> "none"]
NoResult == [kind |-> "none"]

----------------------------------------------------------------------------
(* Bounds of the model.                                                    *)

MaxLines == 2      \* lines in the store
MaxScores == 2     \* scores in a list passed to calculate_overall_score
ReviewCount == 96  \* reviews scored in the calls of SpecOrder
MaxUniform == 12   \* reviews scored alike in the calls of SpecValid

----------------------------------------------------------------------------
(* Python str operations, on sequences of characters.                      *)

NL == "\n"
Whitespace == {" ", NL, "\t"}

\* s[i:] for a 1-based i
DropFirst(s, n) == IF n >= Len(s) THEN <<>> ELSE SubSeq(s, n + 1, Len(s))

RECURSIVE lstrip(_)
lstrip(s) ==
    IF s /= <<>> /\ Head(s) \in Whitespace THEN lstrip(Tail(s)) ELSE s

RECURSIVE rstrip(_)
rstrip(s) ==
    IF s /= <<>> /\ s[Len(s)] \in Whitespace
    THEN rstrip(SubSeq(s, 1, Len(s) - 1)) ELSE s

\* str.strip()
strip(s) == rstrip(lstrip(s))

\* str.startswith(prefix)
startswith(s, prefix) ==
    /\ Len(prefix) <= Len(s)
    /\ SubSeq(s, 1, Len(prefix)) = prefix

\* str.find(sep): the 1-based index of the first occurrence of sep, 0 if none
find(s, sep) ==
    LET hits == {i \in 1..(Len(s) - Len(sep) + 1) :
                    SubSeq(s, i, i + Len(sep) - 1) = sep}
    IN  IF hits = {} THEN 0 ELSE CHOOSE i \in hits : \A j \in hits : i <= j

\* str.split(sep, 1): at most one split, at the first occurrence of sep
split1(s, sep) ==
    LET i == find(s, sep)
    IN  IF i = 0 THEN <<s>>
        ELSE <<SubSeq(s, 1, i - 1), DropFirst(s, i + Len(sep) - 1)>>

----------------------------------------------------------------------------
(* Natural numbers of any size: little-endian sequences of limbs below     *)
(* Base, without leading zero limbs; <<>> is zero.                         *)
Base == 2^15

RECURSIVE BNorm(_)
BNorm(a) ==
    IF a /= <<>> /\ a[Len(a)] = 0 THEN BNorm(SubSeq(a, 1, Len(a) - 1)) ELSE a

RECURSIVE BFromInt(_)
BFromInt(n) == IF n = 0 THEN <<>> ELSE <<n % Base>> \o BFromInt(n \div Base)

RECURSIVE BToInt(_)
BToInt(a) == IF a = <<>> THEN 0 ELSE Head(a) + Base * BToInt(Tail(a))

RECURSIVE BAddC(_, _, _)
BAddC(a, b, c) ==
    IF a = <<>> /\ b = <<>> THEN (IF c = 0 THEN <<>> ELSE <<c>>)
    ELSE LET x == (IF a = <<>> THEN 0 ELSE Head(a))
                  + (IF b = <<>> THEN 0 ELSE Head(b)) + c
         IN  <<x % Base>> \o BAddC(IF a = <<>> THEN a ELSE Tail(a),
                                   IF b = <<>> THEN b ELSE Tail(b),
                                   x \div Base)

BAdd(a, b) == BAddC(a, b, 0)

\* a - b for a >= b
RECURSIVE BSubB(_, _, _)
BSubB(a, b, w) ==
    IF a = <<>> THEN <<>>
    ELSE LET x == Head(a) - (IF b = <<>> THEN 0 ELSE Head(b)) - w
         IN  <<IF x < 0 THEN x + Base ELSE x>>
             \o BSubB(Tail(a), IF b = <<>> THEN b ELSE Tail(b),
                      IF x < 0 THEN 1 ELSE 0)

BSub(a, b) == BNorm(BSubB(a, b, 0))

\* -1, 0, 1 as a < b, a = b, a > b
RECURSIVE BCmpFrom(_, _, _)
BCmpFrom(a, b, i) ==
    IF i = 0 THEN 0
    ELSE IF a[i] < b[i] THEN -1
    ELSE IF a[i] > b[i] THEN 1
    ELSE BCmpFrom(a, b, i - 1)

BCmp(a, b) ==
    IF Len(a) < Len(b) THEN -1
    ELSE IF Len(a) > Len(b) THEN 1
    ELSE BCmpFrom(a, b, Len(a))

\* a * k + c for 0 <= k, c < Base
RECURSIVE BMulSmallC(_, _, _)
BMulSmallC(a, k, c) ==
    IF a = <<>> THEN (IF c = 0 THEN <<>> ELSE <<c>>)
    ELSE LET x == Head(a) * k + c
         IN  <<x % Base>> \o BMulSmallC(Tail(a), k, x \div Base)

BMulSmall(a, k) == IF k = 0 THEN <<>> ELSE BMulSmallC(a, k, 0)

RECURSIVE BMul(_, _)
BMul(a, b) ==
    IF a = <<>> \/ b = <<>> THEN <<>>
    ELSE LET hi == BMul(a, Tail(b))
         IN  BAdd(BMulSmall(a, Head(b)),
                  IF hi = <<>> THEN <<>> ELSE <<0>> \o hi)

Zeros(q) == [i \in 1..q |-> 0]

\* a * 2^n
BShl(a, n) ==
    IF a = <<>> THEN <<>>
    ELSE Zeros(n \div 15) \o BMulSmall(a, 2^(n % 15))

\* floor(a / d) for 0 < d < Base, from the top limb down; i limbs are left
RECURSIVE BDivSmallR(_, _, _, _)
BDivSmallR(a, d, i, r) ==
    IF i = 0 THEN <<>>
    ELSE LET x == r * Base + a[i]
         IN  BDivSmallR(a, d, i - 1, x % d) \o <<x \div d>>

BDivSmall(a, d) == BNorm(BDivSmallR(a, d, Len(a), 0))

\* floor(a / 2^n)
BShr(a, n) ==
    LET q == n \div 15
    IN  IF q >= Len(a) THEN <<>>
        ELSE BDivSmall(SubSeq(a, q + 1, Len(a)), 2^(n % 15))

RECURSIVE BitLenInt(_)
BitLenInt(n) == IF n = 0 THEN 0 ELSE 1 + BitLenInt(n \div 2)

BBitLen(a) == IF a = <<>> THEN 0 ELSE 15 * (Len(a) - 1) + BitLenInt(a[Len(a)])

BIsOdd(a) == a /= <<>> /\ a[1] % 2 = 1

\* the largest q <= guess with q * b <= r
RECURSIVE BQuotFix(_, _, _)
BQuotFix(r, b, guess) ==
    IF BCmp(BMulSmall(b, guess), r) > 0 THEN BQuotFix(r, b, guess - 1)
    ELSE guess

\* floor(r / b) for r < b * Base, where the top limb of b is at least Base/2:
\* the guess from the top limbs is at most two too large
BQuotLimb(r, b) ==
    LET n == Len(b)
        guess == IF Len(r) < n THEN 0
                 ELSE IF Len(r) = n THEN r[n] \div b[n]
                 ELSE (r[n + 1] * Base + r[n]) \div b[n]
    IN  BQuotFix(r, b, IF guess > Base - 1 THEN Base - 1 ELSE guess)

\* long division, limb i of a next; q and r are the quotient and the
\* remainder of the limbs above it
RECURSIVE BDivR(_, _, _, _, _)
BDivR(a, b, i, q, r) ==
    IF i = 0 \/ Len(q) + Len(r) < 0 THEN q
    ELSE LET r2 == BNorm(<<a[i]>> \o r)
             d == BQuotLimb(r2, b)
         IN  BDivR(a, b, i - 1, BNorm(<<d>> \o q), BSub(r2, BMulSmall(b, d)))

\* floor(a / b) for b > 0: both are scaled to bring b's top limb to Base/2
BDiv(a, b) ==
    LET sh == 15 - BitLenInt(b[Len(b)])
        a2 == BShl(a, sh)
    IN  BDivR(a2, BShl(b, sh), Len(a2), <<>>, <<>>)

\* floor(sqrt(a)): the bit i of the root is set when the square still fits
RECURSIVE BSqrtR(_, _, _)
BSqrtR(a, i, s) ==
    IF i < 0 \/ Len(s) < 0 THEN s
    ELSE LET t == BAdd(s, BShl(<<1>>, i))
         IN  BSqrtR(a, i - 1, IF BCmp(BMul(t, t), a) <= 0 THEN t ELSE s)

BSqrt(a) == BSqrtR(a, (BBitLen(a) + 1) \div 2, <<>>)

----------------------------------------------------------------------------
(* Python float: IEEE 754 binary64, round to nearest, ties to even.  A     *)
(* non-negative float is m * 2^e with m = 0 or 2^52 <= m < 2^53.           *)
Precision == 53

\* the float nearest to (M + f) * 2^E, where 0 <= f < 1 and f > 0 iff sticky
FRound(M, E, sticky) ==
    LET L == BBitLen(M)
    IN  IF M = <<>> THEN [m |-> <<>>, e |-> 0]
        ELSE IF L <= Precision
        THEN [m |-> BShl(M, Precision - L), e |-> E - (Precision - L)]
        ELSE LET sh == L - Precision
                 q == BShr(M, sh)
                 rem == BSub(M, BShl(q, sh))
                 c == BCmp(rem, BShl(<<1>>, sh - 1))
                 up == c > 0 \/ (c = 0 /\ (sticky \/ BIsOdd(q)))
                 q2 == IF up THEN BAdd(q, <<1>>) ELSE q
             IN  IF BBitLen(q2) > Precision
                 THEN [m |-> BShr(q2, 1), e |-> E + sh + 1]
                 ELSE [m |-> q2, e |-> E + sh]

\* float(n) for an int n >= 0
FFromInt(n) == FRound(BFromInt(n), 0, FALSE)

FMul(x, y) == FRound(BMul(x.m, y.m), x.e + y.e, FALSE)

FAdd(x, y) ==
    IF x.m = <<>> THEN y
    ELSE IF y.m = <<>> THEN x
    ELSE LET e0 == IF x.e < y.e THEN x.e ELSE y.e
         IN  FRound(BAdd(BShl(x.m, x.e - e0), BShl(y.m, y.e - e0)), e0, FALSE)

\* x / y for y > 0
FDiv(x, y) ==
    LET num == BShl(x.m, 55)
        q == BDiv(num, y.m)
    IN  FRound(q, x.e - y.e - 55, BMul(q, y.m) /= num)

\* math.sqrt(x) for x >= 0
FSqrt(x) ==
    LET odd == x.e % 2 /= 0
        m2 == BShl(x.m, IF odd THEN 59 ELSE 58)
        e2 == IF odd THEN x.e - 59 ELSE x.e - 58
        s == BSqrt(m2)
    IN  FRound(s, e2 \div 2, BMul(s, s) /= m2)

\* round(x, 3) in thousandths: the integer nearest to 1000 * x, ties to even
Round3(x) ==
    LET M == BMulSmall(x.m, 1000)
    IN  IF x.e >= 0 THEN BShl(M, x.e)
        ELSE LET sh == 0 - x.e
                 q == BShr(M, sh)
                 c == BCmp(BSub(M, BShl(q, sh)), BShl(<<1>>, sh - 1))
             IN  IF c > 0 \/ (c = 0 /\ BIsOdd(q)) THEN BAdd(q, <<1>>) ELSE q

----------------------------------------------------------------------------
(* fetch_restaurant_data.                                                  *)

Return(v) == [kind |-> "return", value |-> v]
Raise(e) == [kind |-> "raise", exc |-> e]

\* the dictionary {restaurant_name: reviews}
NameDict(restaurant_name, v) == [key |-> restaurant_name, val |-> v]

\* mutant: [-1], the last element, which every list of split() has
last_part(parts) == Return(parts[Len(parts)])

\* line 29, [1]: the second element of a list, IndexError if it has none
second_part(parts) ==
    IF Len(parts) < 2 THEN Raise("IndexError") ELSE Return(parts[2])

\* The comprehension of lines 28-32, line by line in file order: the list
\* built, or the fault of the first line whose split has no second part.
RECURSIVE matching_reviews(_, _)
matching_reviews(reviews, restaurant_name) ==
    IF reviews = <<>> THEN Return(<<>>)
    ELSE LET review == strip(Head(reviews))
             rest == matching_reviews(Tail(reviews), restaurant_name)
         IN  IF ~startswith(review, restaurant_name \o <<".">>) THEN rest
             ELSE LET part == second_part(split1(review, <<".", " ">>))
                  IN  IF part.kind = "raise" THEN part
                      ELSE IF rest.kind = "raise" THEN rest
                      ELSE Return(<<part.value>> \o rest.value)

\* lines 23-24: open() and readlines()
read_reviews(f) ==
    IF f.exists THEN Return(f.lines) ELSE Raise("FileNotFoundError")

\* mutant: no handler, the error goes to the caller
file_not_found_propagates(restaurant_name) == Raise("FileNotFoundError")

\* lines 25-26: except FileNotFoundError
on_file_not_found(restaurant_name) == Return(NameDict(restaurant_name, <<>>))

fetch_restaurant_data(f, restaurant_name) ==
    LET reviews == read_reviews(f)
    IN  IF reviews.kind = "raise"
        THEN (IF reviews.exc = "FileNotFoundError"
              THEN on_file_not_found(restaurant_name)
              ELSE reviews)
        ELSE LET m == matching_reviews(reviews.value, restaurant_name)
             IN  IF m.kind = "raise" THEN m
                 ELSE Return(NameDict(restaurant_name, m.value))

----------------------------------------------------------------------------
(* The store: records "<RestaurantName>. <ReviewText>" and malformed lines. *)

RestaurantNames ==
    { <<"a">>, <<"b">>, <<"a", ".", "b">>, <<"a", ".", " ", "b">> }

ReviewTexts ==
    { <<"x">>, <<"y">>, <<"x", ".", " ", "y">>, <<".", " ", "x">> }

NoOwner == <<>>

\* the line written for a review of a restaurant
RecordLine(name, text) == name \o <<".", " ">> \o text \o <<NL>>

\* lines that carry a name and a period but no ". " delimiter once stripped,
\* and lines that carry no name at all
MalformedLines ==
    { n \o <<".">> \o t \o <<NL>> :
        n \in RestaurantNames, t \in {<<>>, <<" ">>, <<"x">>} }
    \cup { <<NL>>, <<"x", NL>> }

Entries ==
    { [line |-> RecordLine(n, t), owner |-> n] :
        n \in RestaurantNames, t \in ReviewTexts }
    \cup { [line |-> l, owner |-> NoOwner] : l \in MalformedLines }

EntryLists == UNION { [1..k -> Entries] : k \in 0..MaxLines }

\* every line of the store is a record
WellFormed == \A i \in 1..Len(owner) : owner[i] /= NoOwner

\* the review texts of the lines written for a restaurant, in file order
RECURSIVE ReviewsOf(_, _, _)
ReviewsOf(lines, owners, name) ==
    IF lines = <<>> THEN <<>>
    ELSE LET rest == ReviewsOf(Tail(lines), Tail(owners), name)
         IN  IF Head(owners) = name
             THEN <<DropFirst(strip(Head(lines)), Len(name) + 2)>> \o rest
             ELSE rest

InitFetch ==
    /\ \E exists \in BOOLEAN, es \in EntryLists :
          /\ file = [exists |-> exists,
                     lines |-> IF exists THEN [i \in 1..Len(es) |-> es[i].line]
                               ELSE <<>>]
          /\ owner = IF exists THEN [i \in 1..Len(es) |-> es[i].owner] ELSE <<>>
          /\ (~exists => es = <<>>)
    /\ pc = "idle"
    /\ call = NoCall
    /\ result = NoResult
    /\ permuted = NoResult
    /\ agents = {} /\ llm_tools = {} /\ function_map = {} /\ chats = <<>>

CallFetch ==
    /\ pc = "idle"
    /\ \E name \in RestaurantNames :
          /\ call' = [fn |-> "fetch_restaurant_data", args |-> <<name>>]
          /\ result' = fetch_restaurant_data(file, name)
    /\ pc' = "returned"
    /\ UNCHANGED <<store_vars, permuted, main_vars>>

NextFetch == CallFetch

SpecFetch == InitFetch /\ [][NextFetch]_vars

----------------------------------------------------------------------------
(* calculate_overall_score.  A float result is held in thousandths, which  *)
(* is what round(total_score, 3) leaves of it: 10000 is 10.0.              *)

\* the score range of the docstring (lines 42-43), and ints outside it
MinScore == 1
MaxScore == 5
ValidScores == MinScore..MaxScore
OutOfRange == {-1, 0}
ScoreInts == {MinScore, MaxScore} \cup OutOfRange

\* math.sqrt on the ints food_scores[i]**2 * customer_service_scores[i] of
\* the model, and on 125
Radicands ==
    { k \in { f * f * c : f, c \in ValidScores \cup OutOfRange } : k >= 0 }
    \cup {125}

math_sqrt == [k \in Radicands |-> FSqrt(FFromInt(k))]

\* mutant: zero is refused as well
sqrt_positive_only(k) == k > 0

\* math.sqrt raises ValueError ("math domain error") below zero
sqrt_defined(k) == k >= 0

\* mutant: the number of reviews is left out
normalizer_without_N(sqrt, N) == sqrt[125]

\* N * math.sqrt(125)
normalizer(sqrt, N) == FMul(FFromInt(N), sqrt[125])

\* (1 / (N * math.sqrt(125)))
reciprocal(sqrt, N) == FDiv(FFromInt(1), normalizer(sqrt, N))

\* math.sqrt(food**2 * service) * (1 / (N * math.sqrt(125))) * 10
term(sqrt, radicand, recip) ==
    FMul(FMul(sqrt[radicand], recip), FFromInt(10))

\* One step of sum() over the generator of lines 54-57: the term of index
\* i (from 0) is made and added to the total; what a fault leaves is the fault
add_term(sqrt, food_scores, customer_service_scores, recip, i, total) ==
    IF i + 1 > Len(customer_service_scores) THEN Raise("IndexError")
    ELSE LET radicand == food_scores[i + 1] * food_scores[i + 1]
                            * customer_service_scores[i + 1]
         IN  IF ~sqrt_defined(radicand) THEN Raise("ValueError")
             ELSE Return(FAdd(total, term(sqrt, radicand, recip)))

\* sum() over the indices lo..hi-1, left to right, from the outcome acc of
\* the indices before lo.  The range is halved only to keep the evaluation
\* shallow: the terms are still added one by one in index order.
RECURSIVE sum_terms(_, _, _, _, _, _, _)
sum_terms(sqrt, food_scores, customer_service_scores, recip, lo, hi, acc) ==
    IF acc.kind = "raise" \/ lo >= hi \/ Len(recip.m) < 0 THEN acc
    ELSE IF hi = lo + 1
    THEN add_term(sqrt, food_scores, customer_service_scores, recip, lo,
                  acc.value)
    ELSE LET mid == (lo + hi) \div 2
         IN  sum_terms(sqrt, food_scores, customer_service_scores, recip,
                       mid, hi,
                       sum_terms(sqrt, food_scores, customer_service_scores,
                                 recip, lo, mid, acc))

\* mutant: "and" for "or"
no_scores_at_all(food_scores, customer_service_scores) ==
    food_scores = <<>> /\ customer_service_scores = <<>>

\* line 48: not food_scores or not customer_service_scores
no_scores(food_scores, customer_service_scores) ==
    food_scores = <<>> \/ customer_service_scores = <<>>

\* line 59: {restaurant_name: round(total_score, 3)}, once sum() is through
rounded_score(restaurant_name, total_score) ==
    IF total_score.kind = "raise" THEN total_score
    ELSE Return(NameDict(restaurant_name, BToInt(Round3(total_score.value))))

calculate_overall_score(sqrt, restaurant_name, food_scores, customer_service_scores) ==
    IF no_scores(food_scores, customer_service_scores)
    THEN Return(NameDict(restaurant_name, 0))
    ELSE rounded_score(restaurant_name,
             sum_terms(sqrt, food_scores, customer_service_scores,
                       reciprocal(sqrt, Len(food_scores)),
                       0, Len(food_scores), Return(FFromInt(0))))

ScoreLists(values, n) == UNION { [1..k -> values] : k \in 0..n }

ScoreNames == { <<"a">>, <<"a", ".", "b">> }

\* the state before any call
Idle ==
    /\ file = [exists |-> FALSE, lines |-> <<>>]
    /\ owner = <<>>
    /\ pc = "idle"
    /\ call = NoCall
    /\ result = NoResult
    /\ permuted = NoResult
    /\ agents = {} /\ llm_tools = {} /\ function_map = {} /\ chats = <<>>

\* a call with any two lists of ints, in the score range or not
CallScore ==
    /\ pc = "idle"
    /\ \E sqrt \in {math_sqrt} :
       \E food \in ScoreLists(ScoreInts, MaxScores),
          service \in ScoreLists(ScoreInts, MaxScores),
          name \in ScoreNames :
          /\ call' = [fn |-> "calculate_overall_score",
                      args |-> <<name, food, service>>]
          /\ result' = calculate_overall_score(sqrt, name, food, service)
    /\ pc' = "returned"
    /\ UNCHANGED <<store_vars, permuted, main_vars>>

SpecScore == Idle /\ [][CallScore]_vars

\* a call with two lists of the same length of scores in the range
CallValid ==
    /\ pc = "idle"
    /\ \E sqrt \in {math_sqrt} :
       \E N \in 1..MaxScores, name \in {<<"a">>} :
       \E food \in [1..N -> ValidScores], service \in [1..N -> ValidScores] :
          /\ call' = [fn |-> "calculate_overall_score",
                      args |-> <<name, food, service>>]
          /\ result' = calculate_overall_score(sqrt, name, food, service)
    /\ pc' = "returned"
    /\ UNCHANGED <<store_vars, permuted, main_vars>>

\* a call for up to MaxUniform reviews that were all given the same scores
CallUniform ==
    /\ pc = "idle"
    /\ \E sqrt \in {math_sqrt} :
       \E N \in 1..MaxUniform, f \in ValidScores, c \in ValidScores :
          /\ call' = [fn |-> "calculate_overall_score",
                      args |-> <<<<"a">>, [i \in 1..N |-> f],
                                 [i \in 1..N |-> c]>>]
          /\ result' = calculate_overall_score(sqrt, <<"a">>,
                           [i \in 1..N |-> f], [i \in 1..N |-> c])
    /\ pc' = "returned"
    /\ UNCHANGED <<store_vars, permuted, main_vars>>

NextValid == CallValid \/ CallUniform

SpecValid == Idle /\ [][NextValid]_vars

\* the list of n scores: k times a, then b
Runs(n, k, a, b) == [i \in 1..n |-> IF i <= k THEN a ELSE b]

Reversed(s) == [i \in 1..Len(s) |-> s[Len(s) + 1 - i]]

\* a call for ReviewCount reviews, and the same call with the pairs
\* (food[i], service[i]) in the opposite order
CallBothOrders ==
    /\ pc = "idle"
    /\ \E sqrt \in {math_sqrt} :
       \E k \in 0..ReviewCount, a \in {1, 2}, name \in {<<"a">>} :
       \E b \in {1, 2} \ {a} :
          LET food == Runs(ReviewCount, k, a, b)
              service == Runs(ReviewCount, k, MaxScore, MaxScore)
          IN  /\ call' = [fn |-> "calculate_overall_score",
                          args |-> <<name, food, service>>]
              /\ result' = calculate_overall_score(sqrt, name, food, service)
              /\ permuted' = calculate_overall_score(sqrt, name,
                                 Reversed(food), Reversed(service))
    /\ pc' = "returned"
    /\ UNCHANGED <<store_vars, main_vars>>

SpecOrder == Idle /\ [][CallBothOrders]_vars

----------------------------------------------------------------------------
(* main(user_query): the agents, the registrations and the chat sequence.  *)

FetchTool == "fetch_restaurant_data"
ScoreTool == "calculate_overall_score"

\* what an agent's language model may answer in its one turn
Replies == {"reviews", "scores", "rating"}

\* the chats of lines 179-195, in order
ChatQueue(user_query) ==
    << [recipient |-> "data_fetch_agent",
        message |-> <<"Fetch reviews for the restaurant: ", user_query>>,
        max_turns |-> 1],
       [recipient |-> "review_analyzer_agent",
        message |-> <<"Analyze the reviews for food and customer service scores">>,
        max_turns |-> 1],
       [recipient |-> "scoring_agent",
        message |-> <<"Calculate the overall restaurant score">>,
        max_turns |-> 1] >>

\* line 128: main is entered with the query
MainCalled ==
    /\ pc = "idle"
    /\ \E user_query \in RestaurantNames :
          call' = [fn |-> "main", args |-> <<user_query>>]
    /\ pc' = "entrypoint"
    /\ UNCHANGED <<store_vars, result, permuted, main_vars>>

\* lines 141-145
CreateEntrypoint ==
    /\ pc = "entrypoint"
    /\ agents' = agents \cup {"entrypoint_agent"}
    /\ pc' = "register_for_llm"
    /\ UNCHANGED <<store_vars, call, result, permuted,
                   llm_tools, function_map, chats>>

\* lines 148-151
RegisterForLLM ==
    /\ pc = "register_for_llm"
    /\ llm_tools' = llm_tools \cup
          { [name |-> FetchTool,
             description |-> "Fetches the reviews for a specific restaurant."] }
    /\ pc' = "register_for_execution"
    /\ UNCHANGED <<store_vars, call, result, permuted,
                   agents, function_map, chats>>

\* lines 152-154
RegisterForExecution ==
    /\ pc = "register_for_execution"
    /\ function_map' = function_map \cup {FetchTool}
    /\ pc' = "agents"
    /\ UNCHANGED <<store_vars, call, result, permuted,
                   agents, llm_tools, chats>>

\* lines 157-176
CreateAgents ==
    /\ pc = "agents"
    /\ agents' = agents \cup
          {"data_fetch_agent", "review_analyzer_agent", "scoring_agent"}
    /\ pc' = "initiate_chats"
    /\ UNCHANGED <<store_vars, call, result, permuted,
                   llm_tools, function_map, chats>>

\* lines 179-195: the next chat of the queue, one turn long
Chat ==
    /\ pc = "initiate_chats"
    /\ Len(chats) < Len(ChatQueue(call.args[1]))
    /\ \E reply \in Replies :
          LET c == ChatQueue(call.args[1])[Len(chats) + 1]
          IN  chats' = Append(chats, [recipient |-> c.recipient,
                                      message |-> c.message,
                                      reply |-> reply])
    /\ UNCHANGED <<store_vars, pc, call, result, permuted,
                   agents, llm_tools, function_map>>

\* line 198
MainReturns ==
    /\ pc = "initiate_chats"
    /\ Len(chats) = Len(ChatQueue(call.args[1]))
    /\ result' = Return(chats)
    /\ pc' = "returned"
    /\ UNCHANGED <<store_vars, call, permuted, main_vars>>

NextMain ==
    \/ MainCalled
    \/ CreateEntrypoint
    \/ RegisterForLLM
    \/ RegisterForExecution
    \/ CreateAgents
    \/ Chat
    \/ MainReturns

SpecMain == Idle /\ [][NextMain]_vars

----------------------------------------------------------------------------
(* The claims.                                                             *)

Returned(fn) == pc = "returned" /\ call.fn = fn

\* a stored line that starts with name + "." and has no ". " once stripped
MalformedFor(line, name) ==
    /\ startswith(strip(line), name \o <<".">>)
    /\ find(strip(line), <<".", " ">>) = 0

\* the two score lists of the call are non-empty and equally long
EqualLengthCall ==
    /\ Returned(ScoreTool)
    /\ call.args[2] /= <<>>
    /\ Len(call.args[2]) = Len(call.args[3])

\* no term of the call takes the square root of a negative int
RadicandsDefined ==
    \A i \in 1..Len(call.args[2]) :
        call.args[2][i] * call.args[2][i] * call.args[3][i] >= 0

\* C1: on a well-formed store, fetch_restaurant_data(name) returns under
\* name exactly the reviews of the lines written for that restaurant, in file
\* order, duplicates kept, each without its "<name>. " prefix.
C1_FetchReturnsOwnReviews ==
    (Returned(FetchTool) /\ file.exists /\ WellFormed)
    => result = Return(NameDict(call.args[1],
                                ReviewsOf(file.lines, owner, call.args[1])))

\* C2: for a name that no restaurant of the store has, fetch_restaurant_data
\* returns the empty list, whatever restaurants the lines are written for.
C2_AbsentNameIsEmpty ==
    (/\ Returned(FetchTool) /\ file.exists /\ WellFormed
     /\ \A i \in 1..Len(owner) : owner[i] /= call.args[1])
    => result = Return(NameDict(call.args[1], <<>>))

\* C3: with the store file absent, fetch_restaurant_data raises nothing and
\* returns {name: []}.
C3_MissingFileIsEmpty ==
    (Returned(FetchTool) /\ ~file.exists)
    => result = Return(NameDict(call.args[1], <<>>))

C3_Witness ==
    Returned(FetchTool) /\ ~file.exists /\ result.kind = "return"

\* C4: calculate_overall_score returns exactly 0.000 under the restaurant
\* name when either score list is empty, whatever the other list holds.
C4_EmptyListIsZero ==
    (Returned(ScoreTool) /\ (call.args[2] = <<>> \/ call.args[3] = <<>>))
    => result = Return(NameDict(call.args[1], 0))

C4_Witness ==
    /\ Returned(ScoreTool)
    /\ call.args[2] /= <<>> /\ call.args[3] = <<>>
    /\ result = Return(NameDict(call.args[1], 0))

\* C5: two lists of N >= 1 fives score 10.0 whatever N is, and no two
\* equally long lists of scores in 1..5 score above 10.0.
C5_CeilingIsTen ==
    Returned(ScoreTool)
    => /\ result.kind = "return"
       /\ result.value.val <= 10000
       /\ (\A i \in 1..Len(call.args[2]) :
              call.args[2][i] = MaxScore /\ call.args[3][i] = MaxScore)
          => result.value.val = 10000

C5_Witness ==
    /\ Returned(ScoreTool)
    /\ Len(call.args[2]) > MaxScores
    /\ \A i \in 1..Len(call.args[2]) :
          call.args[2][i] = MaxScore /\ call.args[3][i] = MaxScore
    /\ result = Return(NameDict(call.args[1], 10000))

\* C6: two non-empty score lists of different lengths are rejected with
\* InvalidInput, whichever is the longer, and no score is returned.
C6_MismatchRejected ==
    (/\ Returned(ScoreTool)
     /\ call.args[2] /= <<>> /\ call.args[3] /= <<>>
     /\ Len(call.args[2]) /= Len(call.args[3]))
    => result = Raise("InvalidInput")

\* C7: when the chat sequence starts, fetch_restaurant_data and
\* calculate_overall_score are both registered, to be proposed and to be
\* executed.
C7_BothToolsRegistered ==
    (pc = "initiate_chats")
    => /\ {FetchTool, ScoreTool} \subseteq { t.name : t \in llm_tools }
       /\ {FetchTool, ScoreTool} \subseteq function_map

\* C8: calculate_overall_score returns the same score when the pairs
\* (food[i], service[i]) are given in another order.
C8_OrderIndependent ==
    Returned(ScoreTool) => permuted = result

\* C9: if a line of the store starts with name + "." and has no ". " once
\* stripped, fetch_restaurant_data(name) ends in an IndexError and returns
\* nothing, well-formed lines of that restaurant or not.
C9_MalformedLineFaults ==
    (/\ Returned(FetchTool) /\ file.exists
     /\ \E i \in 1..Len(file.lines) :
           MalformedFor(file.lines[i], call.args[1]))
    => result = Raise("IndexError")

C9_Witness ==
    /\ Returned(FetchTool) /\ file.exists
    /\ \E i, j \in 1..Len(file.lines) :
          /\ MalformedFor(file.lines[i], call.args[1])
          /\ owner[j] = call.args[1]
    /\ result = Raise("IndexError")

\* C10 as claimed: two non-empty int lists of equal length, in 1..5 or not,
\* always give a score and never an error.
C10_NoErrorForAnyInts ==
    EqualLengthCall => result.kind = "return"

\* C10 as amended: two non-empty int lists of equal length give a score,
\* without any check of the range, as long as no food[i]**2 * service[i] is
\* negative; when one is, the call ends in a ValueError.
C10_ErrorOnlyForNegativeRadicand ==
    EqualLengthCall
    => IF RadicandsDefined THEN result.kind = "return"
       ELSE result = Raise("ValueError")

C10_Witness ==
    /\ EqualLengthCall
    /\ \E i \in 1..Len(call.args[2]) : call.args[2][i] < MinScore
    /\ \E i \in 1..Len(call.args[3]) : call.args[3][i] < MinScore
    /\ result.kind = "return"

====
